---- MODULE Spec2Model ----
(***************************************************************************)
(* Model of the authenticated request path of the Google Workspace MCP     *)
(* server (src/src/index.ts): the token store (Supabase table              *)
(* oauth_tokens), getTokens with retry and backoff, getAuthenticatedClient *)
(* with token refresh, the tool handler with its error classification, and *)
(* smartDriveSearch with its fallback strategies.                          *)
(***************************************************************************)
EXTENDS Integers, Sequences, FiniteSets, TLC

\* ------------------------------------------------------------------ bounds

\* The clock runs from 1 to MaxClock.
MaxClock == 3
\* At most MaxIssued access tokens are ever issued (callbacks and refreshes).
MaxIssued == 2
\* At most MaxInvocations tool invocations are started.
MaxInvocations == 2
\* An access token issued at time t expires at t + TokenLifetime.
TokenLifetime == 1

\* --------------------------------------------------------------- constants

\* getTokens(userId, retries = 3)
Retries == 3
\* setTimeout(resolve, 1000 * attempt)
BaseDelay == 1000
\* A token field that is undefined (a JavaScript falsy value).
Undefined == -1

Principals == {"u1", "u2"}
Requests == {"r1", "r2"}
\* The handler instances that run in the sequential specification.
Sequential == {"r1"}

None == <<>>
Some(x) == <<x>>
Get(o) == o[1]

\* ------------------------------------------------------------ error values

\* The messages the code builds, by the substrings the classifier looks for.
Phrases ==
  {"invalid_grant", "Invalid Credentials", "not found", "permission",
   "forbidden", "ECONNREFUSED", "timeout", "ETIMEDOUT",
   "temporarily unavailable", "rate limit"}

\* error.message?.includes(phrase)
Includes(e, phrase) == phrase \in e.msg

\* new TemporaryError('Database temporarily unavailable. Please try again in a moment.')
DatabaseUnavailable ==
  [cls |-> "TemporaryError", code |-> 0, id |-> "DatabaseUnavailable",
   msg |-> {"temporarily unavailable"},
   mtype |-> "string"]

\* new TemporaryError('Unable to retrieve authentication tokens. Please try again.')
UnableToRetrieve ==
  [cls |-> "TemporaryError", code |-> 0, id |-> "UnableToRetrieve", msg |-> {},
   mtype |-> "string"]

\* new AuthenticationError(`User not authenticated. Please visit: ${authUrl}`)
UserNotAuthenticated ==
  [cls |-> "AuthenticationError", code |-> 0, id |-> "UserNotAuthenticated",
   msg |-> {},
   mtype |-> "string"]

\* new AuthenticationError(`Token expired and refresh failed. ...`)
RefreshFailed ==
  [cls |-> "AuthenticationError", code |-> 0, id |-> "RefreshFailed", msg |-> {},
   mtype |-> "string"]

\* Raw errors a remote operation rejects with (status code and message).
RawErrors ==
  { [cls |-> "Error", code |-> c, id |-> "raw", msg |-> m,
   mtype |-> "string"] :
      c \in {404, 429, 500}, m \in {{}, {"timeout"}} }

\* The error object a failed upsert returns (saveTokens throws it).
UpsertError ==
  [cls |-> "PostgrestError", code |-> 0, id |-> "upsert", msg |-> {},
   mtype |-> "string"]

\* What refreshAccessToken rejects with: no refresh token is set on the
\* client, or the authorization service refuses or cannot be reached.
NoRefreshToken ==
  [cls |-> "Error", code |-> 0, id |-> "NoRefreshToken", msg |-> {},
   mtype |-> "string"]
InvalidGrant ==
  [cls |-> "Error", code |-> 400, id |-> "InvalidGrant", msg |-> {"invalid_grant"},
   mtype |-> "string"]
RefreshTimeout ==
  [cls |-> "Error", code |-> 0, id |-> "RefreshTimeout", msg |-> {"ETIMEDOUT"},
   mtype |-> "string"]

\* Values that are not objects: reading a property of them throws.
Null ==
  [cls |-> "null", code |-> 0, id |-> "null", msg |-> {},
   mtype |-> "undefined"]
UndefinedValue ==
  [cls |-> "undefined", code |-> 0, id |-> "undefined", msg |-> {},
   mtype |-> "undefined"]
Nullish(e) == e.cls \in {"null", "undefined"}

\* The TypeError `error.code` raises on null or undefined:
\* "Cannot read properties of null (reading 'code')".
CannotReadProperties ==
  [cls |-> "TypeError", code |-> 0, id |-> "CannotReadProperties", msg |-> {},
   mtype |-> "string"]

\* Mutant: the Temporary branch does not test for the TemporaryError class.
ClassifyNoTemporaryMarker(e) ==
  IF Nullish(e) THEN "Throws"
  ELSE IF e.cls # "AuthenticationError" /\ e.mtype = "number" THEN "Throws"
  ELSE
  IF \/ e.cls = "AuthenticationError"
     \/ Includes(e, "invalid_grant")
     \/ Includes(e, "Invalid Credentials")
  THEN "Authentication"
  ELSE IF \/ e.cls = "NotFoundError"
          \/ e.code = 404
          \/ Includes(e, "not found")
  THEN "NotFound"
  ELSE IF \/ e.cls = "PermissionError"
          \/ e.code = 403
          \/ Includes(e, "permission")
          \/ Includes(e, "forbidden")
  THEN "PermissionDenied"
  ELSE IF \/ Includes(e, "ECONNREFUSED")
          \/ Includes(e, "timeout")
          \/ Includes(e, "ETIMEDOUT")
          \/ Includes(e, "temporarily unavailable")
  THEN "Temporary"
  ELSE IF e.code = 429 \/ Includes(e, "rate limit")
  THEN "RateLimited"
  ELSE "Unknown"

\* Mutant: the message is searched for the authentication phrases after the
\* other branches; the first branch tests the AuthenticationError class only.
ClassifyAuthPhrasesLast(e) ==
  IF Nullish(e) THEN "Throws"
  ELSE IF e.cls # "AuthenticationError" /\ e.mtype = "number" THEN "Throws"
  ELSE
  IF e.cls = "AuthenticationError"
  THEN "Authentication"
  ELSE IF \/ e.cls = "NotFoundError"
          \/ e.code = 404
          \/ Includes(e, "not found")
  THEN "NotFound"
  ELSE IF \/ e.cls = "PermissionError"
          \/ e.code = 403
          \/ Includes(e, "permission")
          \/ Includes(e, "forbidden")
  THEN "PermissionDenied"
  ELSE IF \/ e.cls = "TemporaryError"
          \/ Includes(e, "ECONNREFUSED")
          \/ Includes(e, "timeout")
          \/ Includes(e, "ETIMEDOUT")
          \/ Includes(e, "temporarily unavailable")
  THEN "Temporary"
  ELSE IF e.code = 429 \/ Includes(e, "rate limit")
  THEN "RateLimited"
  ELSE IF \/ Includes(e, "invalid_grant")
          \/ Includes(e, "Invalid Credentials")
  THEN "Authentication"
  ELSE "Unknown"

\* The catch block of the tool handler: the kind of the result it returns,
\* "Throws" when the block itself raises a TypeError (error.message on null
\* or undefined, message.includes on a message that is not a string) and the
\* handler rejects instead of returning a result.
Classify(e) ==
  IF Nullish(e) THEN "Throws"
  ELSE IF e.cls # "AuthenticationError" /\ e.mtype = "number" THEN "Throws"
  ELSE
  IF \/ e.cls = "AuthenticationError"
     \/ Includes(e, "invalid_grant")
     \/ Includes(e, "Invalid Credentials")
  THEN "Authentication"
  ELSE IF \/ e.cls = "NotFoundError"
          \/ e.code = 404
          \/ Includes(e, "not found")
  THEN "NotFound"
  ELSE IF \/ e.cls = "PermissionError"
          \/ e.code = 403
          \/ Includes(e, "permission")
          \/ Includes(e, "forbidden")
  THEN "PermissionDenied"
  ELSE IF \/ e.cls = "TemporaryError"
          \/ Includes(e, "ECONNREFUSED")
          \/ Includes(e, "timeout")
          \/ Includes(e, "ETIMEDOUT")
          \/ Includes(e, "temporarily unavailable")
  THEN "Temporary"
  ELSE IF e.code = 429 \/ Includes(e, "rate limit")
  THEN "RateLimited"
  ELSE "Unknown"

\* ------------------------------------------------------------------- state

VARIABLES
  store,    \* table oauth_tokens: user_id -> tokens, one row per user_id
  now,      \* Date.now()
  issued,   \* access tokens issued so far by the authorization service
  started,  \* tool invocations started so far
  req       \* the handler instances, each a record:
            \*   pc        where the handler is suspended
            \*   user      userId of the invocation
            \*   attempt   getTokens: the loop counter
            \*   reads     getTokens: store reads that were answered
            \*   failures  getTokens: reads answered by an error or an exception
            \*   last      getTokens: the store's reply to the latest read
            \*   waits     getTokens: the delays slept
            \*   client    getAuthenticatedClient: credentials set on the client
            \*   creds     getAuthenticatedClient: credentials from the refresh
            \*   refreshes refreshAccessToken calls
            \*   written   the upserts of this invocation the store applied
            \*   caught    the refreshError caught around refresh and save
            \*   ops       remote operation calls
            \*   opCred    credentials the remote operation was called with
            \*   tool      the tool case whose remote call rejected
            \*   raw       what the remote call rejected with
            \*   thrown    the error caught by the handler's catch block
            \*   result    kind of the result returned to the caller
VARIABLES
  srch      \* one run of smartDriveSearch, a record:
            \*   pc         "idle", "call" (a files.list call in flight), "done"
            \*   query      the query argument
            \*   maxResults the maxResults argument
            \*   calls      the files.list calls issued so far, in order, each
            \*              with its strategy, q, pageSize and how it was
            \*              answered
            \*   reply      the reply to the latest call
            \*   result     the list returned
            \*   handler    the result of the drive_search case

vars == <<store, now, issued, started, req, srch>>

\* A stored token record (the tokens column).
Tokens(at, rt, exp) ==
  [access_token |-> at, refresh_token |-> rt, expiry_date |-> exp]

\* JavaScript truthiness of a numeric token field.
Truthy(x) == x # Undefined /\ x # 0

\* Mutant: the upsert merges into the row, keeping the expiry of the row it
\* finds.
UpsertMerges(s, p, t) ==
  [q \in DOMAIN s \cup {p} |->
     IF q = p
     THEN IF p \in DOMAIN s
          THEN [t EXCEPT !.expiry_date = s[p].expiry_date] ELSE t
     ELSE s[q]]

\* Mutant: the upsert is not restricted to the row of the user.
UpsertAllRows(s, p, t) == [q \in DOMAIN s \cup {p} |-> t]

\* supabase ... .upsert({ user_id, tokens }, { onConflict: 'user_id' })
Upsert(s, p, t) ==
  [q \in DOMAIN s \cup {p} |-> IF q = p THEN t ELSE s[q]]

\* supabase ... .delete().eq('user_id', userId)
Delete(s, p) == [q \in DOMAIN s \ {p} |-> s[q]]

\* What a read of user p's row may answer: the row, PGRST116 when there is
\* none, an error object, a thrown exception, or a reply without tokens.
StoreReplies(s, p) ==
  (IF p \in DOMAIN s THEN {"row"} ELSE {"PGRST116"})
    \cup {"error", "throw", "noTokens"}

\* Mutant: the same delay before every retry.
DelayConstant(a) == BaseDelay

\* setTimeout(resolve, 1000 * attempt)
Delay(a) == BaseDelay * a

\* Outcomes of a piece of code: a return value, a thrown error, a retry
\* after a delay, or the refresh exchange.
Return(v) == [kind |-> "return", value |-> v, error |-> None, delay |-> 0]
Throw(e) == [kind |-> "throw", value |-> None, error |-> Some(e), delay |-> 0]
Retry(d) == [kind |-> "retry", value |-> None, error |-> None, delay |-> d]
Refresh(v) == [kind |-> "refresh", value |-> v, error |-> None, delay |-> 0]

\* Mutant: after the last attempt the reader returns null, as it did before
\* the retry logic was added ("if (error) return null").
GetTokensCatchReturnsNull(a) ==
  IF a = Retries THEN Return(None) ELSE Retry(Delay(a))

\* Mutant: the catch clause gives up on the first exception.
GetTokensCatchGivesUp(a) == Throw(UnableToRetrieve)

\* getTokens: the catch clause of the loop body.
GetTokensCatch(a) ==
  IF a = Retries THEN Throw(UnableToRetrieve) ELSE Retry(Delay(a))

\* Mutant: PGRST116 is handled like every other error of the store.
GetTokensStepNotFoundIsError(a, reply, row) ==
  CASE reply \in {"PGRST116", "error"} ->
         IF a = Retries THEN GetTokensCatch(a) ELSE Retry(Delay(a))
    [] reply = "throw" -> GetTokensCatch(a)
    [] reply = "row" -> Return(Some(row))
    [] reply = "noTokens" -> Return(None)

\* Mutant: a read answered by an error is retried once more than the count
\* allows.
GetTokensStepExtraRetry(a, reply, row) ==
  CASE reply = "PGRST116" -> Return(None)
    [] reply = "error" ->
         IF a = Retries + 1
         THEN GetTokensCatch(Retries)
         ELSE Retry(Delay(a))
    [] reply = "throw" -> GetTokensCatch(IF a > Retries THEN Retries ELSE a)
    [] reply = "row" -> Return(Some(row))
    [] reply = "noTokens" -> Return(None)

\* Mutant: PGRST116 is looked at only after the retries are used up.
GetTokensStepNotFoundRetried(a, reply, row) ==
  CASE reply = "PGRST116" ->
         IF a = Retries THEN Return(None) ELSE Retry(Delay(a))
    [] reply = "error" ->
         IF a = Retries THEN GetTokensCatch(a) ELSE Retry(Delay(a))
    [] reply = "throw" -> GetTokensCatch(a)
    [] reply = "row" -> Return(Some(row))
    [] reply = "noTokens" -> Return(None)

\* getTokens: one pass of the loop body, given the store's reply.
GetTokensStep(a, reply, row) ==
  CASE reply = "PGRST116" -> Return(None)
    [] reply = "error" ->
         IF a = Retries
         THEN GetTokensCatch(a)      \* the TemporaryError thrown in the try
         ELSE Retry(Delay(a))
    [] reply = "throw" -> GetTokensCatch(a)
    [] reply = "row" -> Return(Some(row))
    [] reply = "noTokens" -> Return(None)

\* Mutant: a token that expires right now is refreshed too.
NeedsRefreshInclusive(t, time) ==
  Truthy(t.expiry_date) /\ t.expiry_date <= time

\* Mutant: the presence of expiry_date is not tested.
NeedsRefreshNoPresenceCheck(t, time) == t.expiry_date < time

\* Mutant: every credential read is refreshed.
NeedsRefreshAlways(t, time) == TRUE

\* tokens.expiry_date && tokens.expiry_date < Date.now()
NeedsRefresh(t, time) == Truthy(t.expiry_date) /\ t.expiry_date < time

\* Mutant: a missing credential is reported as a failure of the store.
AfterTokensNullIsTemporary(v, time) ==
  IF v = None THEN Throw(UnableToRetrieve)
  ELSE IF NeedsRefresh(Get(v), time) THEN Refresh(v)
  ELSE Return(v)

\* getAuthenticatedClient after getTokens returned v.
AfterTokens(v, time) ==
  IF v = None THEN Throw(UserNotAuthenticated)
  ELSE IF NeedsRefresh(Get(v), time) THEN Refresh(v)
  ELSE Return(v)

\* refreshAccessToken: what the exchange may reject with for credentials t.
RefreshErrors(t) ==
  IF Truthy(t.refresh_token) THEN {InvalidGrant, RefreshTimeout}
  ELSE {NoRefreshToken}

\* Mutant: the refresh resolves with a new access token and the old expiry.
RefreshedKeepsExpiry(t, time, n) ==
  Tokens(n, t.refresh_token, t.expiry_date)

\* Mutant: the refresh resolves with the new access token and expiry only.
RefreshedDropsRefreshToken(t, time, n) ==
  Tokens(n, Undefined, time + TokenLifetime)

\* Mutant: the refresh resolves with credentials that have no access token.
RefreshedWithoutAccessToken(t, time, n) ==
  Tokens(Undefined, t.refresh_token, time + TokenLifetime)

\* refreshAccessToken: the credentials of a successful exchange.
Refreshed(t, time, n) == Tokens(n, t.refresh_token, time + TokenLifetime)

\* Mutant: saveTokens logs the store's error and returns.
SaveTokensIgnoresError(error) == Return(None)

\* saveTokens: throws the store's error, if any.
SaveTokens(error) ==
  IF error # None THEN Throw(Get(error)) ELSE Return(None)

\* Mutant: the catch clause rethrows what it caught.
RefreshCatchRethrows(e) == e

\* getAuthenticatedClient: catch (refreshError) around refresh and save.
RefreshCatch(e) == RefreshFailed

\* No search is running.
NoSearch ==
  [pc |-> "idle", query |-> << >>, maxResults |-> 0, calls |-> << >>,
   reply |-> [kind |-> "none", files |-> None], result |-> << >>,
   handler |-> [kind |-> "none", isError |-> FALSE]]

Idle ==
  [pc |-> "idle", user |-> "u1", attempt |-> 0, reads |-> 0, failures |-> 0,
   last |-> "none", waits |-> << >>, client |-> None, creds |-> None,
   refreshes |-> 0, written |-> << >>, caught |-> None, ops |-> 0,
   opCred |-> None, tool |-> "none", raw |-> None, thrown |-> None,
   result |-> "none"]

Init ==
  /\ store = << >>
  /\ now = 1
  /\ issued = 0
  /\ started = 0
  /\ req = [r \in Requests |-> Idle]
  /\ srch = NoSearch

\* ----------------------------------------------------------------- actions

\* The handler's catch block returns the classified result.
Failed(q, e) ==
  [q EXCEPT !.thrown = Some(e), !.result = Classify(e), !.pc = "done"]

\* The handler invokes the remote operation with the client.
Invoked(q, c) ==
  [q EXCEPT !.client = c, !.ops = @ + 1, !.opCred = c, !.pc = "op"]

\* /oauth/callback: getToken succeeded and saveTokens stored the grant.
OAuthCallback(p) ==
  /\ issued < MaxIssued
  /\ \E rt \in {issued + 1, Undefined}, exp \in {now + TokenLifetime, Undefined} :
       store' = Upsert(store, p, Tokens(issued + 1, rt, exp))
  /\ issued' = issued + 1
  /\ UNCHANGED <<now, started, req, srch>>

\* /oauth/logout: the row of the user is deleted.
Logout(p) ==
  /\ p \in DOMAIN store
  /\ store' = Delete(store, p)
  /\ UNCHANGED <<now, issued, started, req, srch>>

\* Time passes.
Tick ==
  /\ now < MaxClock
  /\ now' = now + 1
  /\ UNCHANGED <<store, issued, started, req, srch>>

\* CallToolRequestSchema handler: a tool call for user p arrives; the handler
\* calls getAuthenticatedClient, which calls getTokens, which issues read 1.
StartRequest(r, p) ==
  /\ req[r].pc \in {"idle", "done"}
  /\ started < MaxInvocations
  /\ started' = started + 1
  /\ req' = [req EXCEPT ![r] = [Idle EXCEPT !.pc = "read", !.user = p,
                                            !.attempt = 1]]
  /\ UNCHANGED <<store, now, issued, srch>>

\* getTokens: the store answers the read of this attempt; the code runs on to
\* its next suspension (a backoff sleep, the refresh exchange, the remote
\* operation) or to the handler's result.
ReadReply(r) ==
  /\ req[r].pc = "read"
  /\ \E reply \in StoreReplies(store, req[r].user) :
       LET row == IF reply = "row" THEN store[req[r].user]
                  ELSE Tokens(Undefined, Undefined, Undefined)
           step == GetTokensStep(req[r].attempt, reply, row)
           next == AfterTokens(step.value, now)
           q == [req[r] EXCEPT
                   !.reads = @ + 1,
                   !.failures = IF reply \in {"error", "throw"} THEN @ + 1 ELSE @,
                   !.last = reply]
       IN req' = [req EXCEPT ![r] =
            CASE step.kind = "retry" ->
                   [q EXCEPT !.waits = Append(@, step.delay), !.pc = "backoff"]
              [] step.kind = "throw" -> Failed(q, Get(step.error))
              [] step.kind = "return" /\ next.kind = "throw" ->
                   Failed(q, Get(next.error))
              [] step.kind = "return" /\ next.kind = "refresh" ->
                   [q EXCEPT !.client = next.value, !.refreshes = @ + 1,
                             !.pc = "refresh"]
              [] step.kind = "return" /\ next.kind = "return" ->
                   Invoked(q, next.value)]
  /\ UNCHANGED <<store, now, issued, started, srch>>

\* getTokens: the backoff sleep ends and the next read is issued.
BackoffDone(r) ==
  /\ req[r].pc = "backoff"
  /\ req' = [req EXCEPT ![r] = [@ EXCEPT !.attempt = @ + 1, !.pc = "read"]]
  /\ UNCHANGED <<store, now, issued, started, srch>>

\* refreshAccessToken resolves with new credentials; saveTokens is called.
RefreshOk(r) ==
  /\ req[r].pc = "refresh"
  /\ Truthy(Get(req[r].client).refresh_token)
  /\ issued < MaxIssued
  /\ issued' = issued + 1
  /\ req' = [req EXCEPT ![r] =
               [@ EXCEPT !.creds = Some(Refreshed(Get(req[r].client), now,
                                                  issued + 1)),
                         !.pc = "save"]]
  /\ UNCHANGED <<store, now, started, srch>>

\* refreshAccessToken rejects: the catch clause throws AuthenticationError.
RefreshFail(r) ==
  /\ req[r].pc = "refresh"
  /\ \E e \in RefreshErrors(Get(req[r].client)) :
       req' = [req EXCEPT ![r] =
                 Failed([@ EXCEPT !.caught = Some(e)], RefreshCatch(e))]
  /\ UNCHANGED <<store, now, issued, started, srch>>

\* saveTokens: the store applies the upsert.
SaveApply(r) ==
  /\ req[r].pc = "save"
  /\ store' = Upsert(store, req[r].user, Get(req[r].creds))
  /\ req' = [req EXCEPT ![r] =
               [@ EXCEPT !.written = Append(@, Get(req[r].creds)),
                         !.pc = "saved"]]
  /\ UNCHANGED <<now, issued, started, srch>>

\* saveTokens: the upsert fails and the store's error comes back.
SaveFail(r) ==
  /\ req[r].pc = "save"
  /\ LET out == SaveTokens(Some(UpsertError))
     IN req' = [req EXCEPT ![r] =
          IF out.kind = "throw"
          THEN Failed([@ EXCEPT !.caught = out.error],
                      RefreshCatch(Get(out.error)))
          ELSE Invoked(@, @.creds)]
  /\ UNCHANGED <<store, now, issued, started, srch>>

\* saveTokens returns; the client gets the new credentials and the handler
\* invokes the remote operation.
SaveReturn(r) ==
  /\ req[r].pc = "saved"
  /\ LET out == SaveTokens(None)
     IN req' = [req EXCEPT ![r] =
          IF out.kind = "throw"
          THEN Failed([@ EXCEPT !.caught = out.error],
                      RefreshCatch(Get(out.error)))
          ELSE Invoked(@, @.creds)]
  /\ UNCHANGED <<store, now, issued, started, srch>>

\* The remote operation resolves: the handler returns its result unchanged.
OpOk(r) ==
  /\ req[r].pc = "op"
  /\ req' = [req EXCEPT ![r] = [@ EXCEPT !.result = "ok", !.pc = "done"]]
  /\ UNCHANGED <<store, now, issued, started, srch>>

\* Mutant: the handler invokes the remote operation a second time when it
\* rejects.
OpFailRetries(r) ==
  /\ req[r].pc = "op"
  /\ IF req[r].ops < 2
     THEN req' = [req EXCEPT ![r] = Invoked(@, req[r].client)]
     ELSE \E e \in RawErrors : req' = [req EXCEPT ![r] = Failed(@, e)]
  /\ UNCHANGED <<store, now, issued, started, srch>>

\* The remote operation rejects: the catch block classifies the error.
OpFail(r) ==
  /\ req[r].pc = "op"
  /\ \E e \in RawErrors : req' = [req EXCEPT ![r] = Failed(@, e)]
  /\ UNCHANGED <<store, now, issued, started, srch>>

Next ==
  \/ \E p \in Principals : OAuthCallback(p)
  \/ \E p \in Principals : Logout(p)
  \/ Tick
  \/ \E r \in Sequential, p \in Principals : StartRequest(r, p)
  \/ \E r \in Sequential : ReadReply(r)
  \/ \E r \in Sequential : BackoffDone(r)
  \/ \E r \in Sequential : RefreshOk(r)
  \/ \E r \in Sequential : RefreshFail(r)
  \/ \E r \in Sequential : SaveApply(r)
  \/ \E r \in Sequential : SaveFail(r)
  \/ \E r \in Sequential : SaveReturn(r)
  \/ \E r \in Sequential : OpOk(r)
  \/ \E r \in Sequential : OpFail(r)

Spec == Init /\ [][Next]_vars

\* ------------------------------------------------- concurrent invocations

\* The grant a user obtained before the run, numbered above the tokens issued
\* during it; it has expired.
OldGrant(p) ==
  IF p = "u1" THEN Tokens(MaxIssued + 1, MaxIssued + 1, 1)
  ELSE Tokens(MaxIssued + 2, MaxIssued + 2, 1)

\* Both users hold an expired grant.
InitConc ==
  /\ store = Upsert(Upsert(<< >>, "u1", OldGrant("u1")), "u2", OldGrant("u2"))
  /\ now = 2
  /\ issued = 0
  /\ started = 0
  /\ req = [r \in Requests |-> Idle]
  /\ srch = NoSearch

\* Handler instances run interleaved: each await is a point where the other
\* instance may run.
NextConc ==
  \/ \E r \in Requests, p \in Principals : StartRequest(r, p)
  \/ \E r \in Requests : ReadReply(r)
  \/ \E r \in Requests : BackoffDone(r)
  \/ \E r \in Requests : RefreshOk(r)
  \/ \E r \in Requests : RefreshFail(r)
  \/ \E r \in Requests : SaveApply(r)
  \/ \E r \in Requests : SaveFail(r)
  \/ \E r \in Requests : SaveReturn(r)
  \/ \E r \in Requests : OpOk(r)
  \/ \E r \in Requests : OpFail(r)

SpecConc == InitConc /\ [][NextConc]_vars

\* ------------------------------------------- tool cases and classification

\* Most phrases a raw error message is tried with at once.
MaxPhrases == 2

\* The three shapes of tool case: the call is not wrapped (gmail_send), a
\* 404 is rethrown as NotFoundError (drive_read), a 404 as NotFoundError and
\* a 403 as PermissionError (drive_change_permissions).
Tools == {"gmail_send", "drive_read", "drive_change_permissions"}

\* new NotFoundError(`File with ID "${fileId}" not found. ...`): the message
\* contains 'not found' and what the caller's id contains.
FileNotFound(arg) ==
  [cls |-> "NotFoundError", code |-> 0, id |-> "FileNotFound",
   msg |-> {"not found"} \cup arg, mtype |-> "string"]

\* new PermissionError(`You don't have permission to share this file.`)
NoPermissionToShare ==
  [cls |-> "PermissionError", code |-> 0, id |-> "NoPermissionToShare",
   msg |-> {"permission"}, mtype |-> "string"]

\* The catch of the tool case: what reaches the handler's catch block when
\* the remote call rejects with e. arg: the phrases in the id argument.
ToolCatch(tool, e, arg) ==
  IF tool = "gmail_send" THEN e
  ELSE IF Nullish(e) THEN CannotReadProperties
  ELSE IF e.code = 404 THEN FileNotFound(arg)
  ELSE IF tool = "drive_change_permissions" /\ e.code = 403
  THEN NoPermissionToShare
  ELSE e

\* Status codes of raw errors; 0 stands for an error without a code.
Codes == {0, 403, 404, 429, 500}

PhraseSets == {m \in SUBSET Phrases : Cardinality(m) <= MaxPhrases}

\* What a remote call may reject with: an Error with any code and message,
\* an object whose message is missing or is not a string, null, undefined.
Thrown ==
  { [cls |-> "Error", code |-> c, id |-> "raw", msg |-> m, mtype |-> "string"] :
      c \in Codes, m \in PhraseSets }
  \cup { [cls |-> "Error", code |-> c, id |-> "raw", msg |-> {}, mtype |-> t] :
           c \in Codes, t \in {"undefined", "number"} }
  \cup {Null, UndefinedValue}

\* The id argument of the call, by the phrases it contains.
IdArgs == {{}} \cup {{p} : p \in Phrases}

\* The remote operation of some tool rejects; the tool case's catch and then
\* the handler's catch block run.
OpThrows(r) ==
  /\ req[r].pc = "op"
  /\ \E tool \in Tools, e \in Thrown, arg \in IdArgs :
       req' = [req EXCEPT ![r] =
                 Failed([@ EXCEPT !.tool = tool, !.raw = Some(e)],
                        ToolCatch(tool, e, arg))]
  /\ UNCHANGED <<store, now, issued, started, srch>>

\* A user with a grant that does not expire during the run.
InitClassify ==
  /\ store = Upsert(<< >>, "u1", Tokens(1, 1, 1 + TokenLifetime))
  /\ now = 1
  /\ issued = 1
  /\ started = 0
  /\ req = [r \in Requests |-> Idle]
  /\ srch = NoSearch

NextClassify ==
  \/ \E r \in Sequential, p \in Principals : StartRequest(r, p)
  \/ \E r \in Sequential : ReadReply(r)
  \/ \E r \in Sequential : BackoffDone(r)
  \/ \E r \in Sequential : OpOk(r)
  \/ \E r \in Sequential : OpThrows(r)

SpecClassify == InitClassify /\ [][NextClassify]_vars

\* --------------------------------------------------------- smartDriveSearch

\* Characters are one-letter strings; case mapping of String.toLowerCase and
\* String.toUpperCase on the letters used (other characters map to
\* themselves).
LowerOf(c) ==
  CASE c = "S" -> "s" [] c = "I" -> "i" [] c = "N" -> "n"
    [] c = "T" -> "t" [] c = "E" -> "e" [] OTHER -> c

UpperOf(c) ==
  CASE c = "s" -> "S" [] c = "i" -> "I" [] c = "n" -> "N"
    [] c = "t" -> "T" [] c = "e" -> "E" [] OTHER -> c

ToLowerCase(w) == [i \in 1..Len(w) |-> LowerOf(w[i])]
ToUpperCase(w) == [i \in 1..Len(w) |-> UpperOf(w[i])]

Min(S) == CHOOSE x \in S : \A y \in S : x <= y
Max2(a, b) == IF a >= b THEN a ELSE b

\* String.includes
StrIncludes(hay, needle) ==
  \E i \in 0..(Len(hay) - Len(needle)) :
    SubSeq(hay, i + 1, i + Len(needle)) = needle

\* String.substring(0, n)
Substring0(w, n) == SubSeq(w, 1, IF n < Len(w) THEN n ELSE Len(w))

\* Pieces of query text. The regular expression is case-insensitive and
\* accepts either quote on either side.
NameContains == "name contains "
Quotes == {"'", "\""}
DocsOnly == " and mimeType='application/vnd.google-apps.document'"
SheetsOnly == " and mimeType='application/vnd.google-apps.spreadsheet'"

\* query.match(/name contains ['"](.+?)['"]/i): the captured term, if any.
MatchEnds(q, i) == {j \in (i + 3)..Len(q) : q[j] \in Quotes}
MatchStarts(q) ==
  {i \in 1..(Len(q) - 1) :
     q[i] = NameContains /\ q[i + 1] \in Quotes /\ MatchEnds(q, i) # {}}
SearchTermMatch(q) ==
  IF MatchStarts(q) = {} THEN None
  ELSE LET i == Min(MatchStarts(q))
       IN Some(SubSeq(q, i + 2, Min(MatchEnds(q, i)) - 1))

\* `name contains '${x}'`
ContainsQuery(x) == <<NameContains, "'">> \o x \o <<"'">>

\* Mutant: the prefix always has four characters.
PartialTermFixedFour(term) == Substring0(term, 4)

\* term.substring(0, Math.max(4, Math.floor(term.length * 0.6)))
PartialTerm(term) == Substring0(term, Max2(4, (Len(term) * 6) \div 10))

\* Mutant: the spreadsheet strategy searches for the term as typed.
StrategyQuerySheetsAsTyped(k, query, term) ==
  CASE k = 1 -> query
    [] k = 2 -> ContainsQuery(ToLowerCase(term))
    [] k = 3 -> ContainsQuery(ToUpperCase(term))
    [] k = 4 -> ContainsQuery(ToLowerCase(PartialTerm(term)))
    [] k = 5 -> ContainsQuery(ToLowerCase(term)) \o <<DocsOnly>>
    [] k = 6 -> ContainsQuery(term) \o <<SheetsOnly>>

\* Mutant: the fallback strategies append what follows the name predicate
\* in the query to their own query.
StrategyQueryKeepsRest(k, query, term) ==
  LET rest == SubSeq(query, Len(ContainsQuery(term)) + 1, Len(query))
  IN CASE k = 1 -> query
       [] k = 2 -> ContainsQuery(ToLowerCase(term)) \o rest
       [] k = 3 -> ContainsQuery(ToUpperCase(term)) \o rest
       [] k = 4 -> ContainsQuery(ToLowerCase(PartialTerm(term))) \o rest
       [] k = 5 -> ContainsQuery(ToLowerCase(term)) \o <<DocsOnly>> \o rest
       [] k = 6 -> ContainsQuery(ToLowerCase(term)) \o <<SheetsOnly>> \o rest

\* The q parameter of the files.list call of strategy k.
StrategyQuery(k, query, term) ==
  CASE k = 1 -> query
    [] k = 2 -> ContainsQuery(ToLowerCase(term))
    [] k = 3 -> ContainsQuery(ToUpperCase(term))
    [] k = 4 -> ContainsQuery(ToLowerCase(PartialTerm(term)))
    [] k = 5 -> ContainsQuery(ToLowerCase(term)) \o <<DocsOnly>>
    [] k = 6 -> ContainsQuery(ToLowerCase(term)) \o <<SheetsOnly>>

\* The pageSize parameter of the files.list call of strategy k.
StrategyPageSize(k, maxResults) ==
  IF k = 4 THEN maxResults * 3 ELSE maxResults

\* Mutant: the document strategy runs before the partial-term strategy.
NextStrategyDocsFirst(k, m) ==
  CASE k = 1 -> IF m = None THEN 0 ELSE 2
    [] k = 2 -> 3
    [] k = 3 -> 5
    [] k = 5 -> IF Len(Get(m)) >= 4 THEN 4 ELSE 6
    [] k = 4 -> 6
    [] k = 6 -> 0

\* Mutant: the partial-term strategy is followed by the spreadsheet strategy,
\* the document strategy is skipped.
NextStrategySkipsDocs(k, m) ==
  CASE k = 1 -> IF m = None THEN 0 ELSE 2
    [] k = 2 -> 3
    [] k = 3 -> IF Len(Get(m)) >= 4 THEN 4 ELSE 5
    [] k = 4 -> 6
    [] k = 5 -> 6
    [] k = 6 -> 0

\* The strategy tried after strategy k came back empty or failed; 0 when the
\* strategies are exhausted. m is the result of the match.
NextStrategy(k, m) ==
  CASE k = 1 -> IF m = None THEN 0 ELSE 2
    [] k = 2 -> 3
    [] k = 3 -> IF Len(Get(m)) >= 4 THEN 4 ELSE 5
    [] k = 4 -> 5
    [] k = 5 -> 6
    [] k = 6 -> 0

\* file.name?.toLowerCase().includes(term.toLowerCase())
NameMatches(file, term) ==
  file.name # None /\ StrIncludes(ToLowerCase(Get(file.name)), ToLowerCase(term))

\* Strategies 1, 2, 3, 5, 6: the files of the reply when there are any;
\* << >> stands for "nothing returned, go on".
ListResult(reply) ==
  IF reply.kind = "ok" /\ reply.files # None /\ Len(Get(reply.files)) > 0
  THEN Get(reply.files) ELSE << >>

\* Mutant: strategy 4 returns what the backend listed, cut to maxResults,
\* without the filter.
PartialResultUnfiltered(term, maxResults, reply) ==
  IF reply.kind = "ok" /\ reply.files # None /\ Len(Get(reply.files)) > 0
  THEN Substring0(Get(reply.files), maxResults)
  ELSE << >>

\* Strategy 4: the files whose name contains the term, cut to maxResults.
PartialResult(term, maxResults, reply) ==
  IF reply.kind = "ok" /\ reply.files # None
  THEN LET Keep(f) == NameMatches(f, term)
           filtered == SelectSeq(Get(reply.files), Keep)
       IN IF Len(filtered) > 0 THEN Substring0(filtered, maxResults) ELSE << >>
  ELSE << >>

\* Mutant: strategy 2 logs what it found and goes on to strategy 3.
FoundLowercaseFallsThrough(k, term, maxResults, reply) ==
  IF k = 2 THEN << >>
  ELSE IF k = 4 THEN PartialResult(term, maxResults, reply)
  ELSE ListResult(reply)

\* What strategy k returns from smartDriveSearch for a reply (<< >>: nothing).
Found(k, term, maxResults, reply) ==
  IF k = 4 THEN PartialResult(term, maxResults, reply) ELSE ListResult(reply)

\* Mutant: the catch of a strategy rethrows what files.list rejected with.
StrategyCatchRethrows(k, reply) == "throw"

\* The catch of strategy k: it logs a warning and the function goes on.
StrategyCatch(k, reply) == "next"

\* The drive_search case of the handler: the result it returns for the list
\* smartDriveSearch returned.
DriveSearch(files) ==
  IF Len(files) = 0
  THEN [kind |-> "NoFilesFound", isError |-> FALSE]
  ELSE [kind |-> "Files", isError |-> FALSE]

\* The result of the handler when smartDriveSearch throws: the catch block
\* returns an error result.
DriveSearchThrew == [kind |-> "Error", isError |-> TRUE]

\* The files.list call of strategy k.
Call(k, query, m, maxResults) ==
  [strategy |-> k,
   q |-> StrategyQuery(k, query, IF m = None THEN << >> ELSE Get(m)),
   pageSize |-> StrategyPageSize(k, maxResults),
   answer |-> "pending", passing |-> 0]

\* ----- inputs and the backend

\* Longest search term tried.
MaxTermLen == 9
\* Largest maxResults argument tried.
MaxResults == 2
\* Longest file list the backend answers with.
MaxFiles == 2

Word == <<"S", "i", "n", "t", "e", "s">>
Term(n) == [i \in 1..n |-> Word[((i - 1) % Len(Word)) + 1]]

\* The query arguments tried: a name search, a name search with a further
\* predicate, and a query of another shape.
Queries ==
  UNION { { ContainsQuery(Term(n)),
            ContainsQuery(Term(n)) \o <<" and trashed=false">>,
            <<"fullText contains ", "'">> \o Term(n) \o <<"'">> } :
          n \in 1..MaxTermLen }

\* Files the backend may list for a search of term: one whose name contains
\* the term in another case, one whose name does not, one without a name.
Files(term) ==
  { [name |-> Some(<<"x">> \o ToUpperCase(term))],
    [name |-> Some(<<"x", "y">>)],
    [name |-> None] }

FileLists(term) ==
  UNION { [1..n -> Files(term)] : n \in 0..MaxFiles }

\* What files.list may answer: it rejects, or resolves with or without files.
SearchReplies(term) ==
  {[kind |-> "fail", files |-> None], [kind |-> "ok", files |-> None]}
    \cup {[kind |-> "ok", files |-> Some(l)] : l \in FileLists(term)}

\* How a reply is recorded with its call: "fail", "empty" (no list or an
\* empty one) or "files", and how many listed names contain the term.
AnswerOf(reply) ==
  IF reply.kind = "fail" THEN "fail"
  ELSE IF reply.files = None \/ Get(reply.files) = << >> THEN "empty"
  ELSE "files"

PassingOf(reply, term) ==
  IF reply.kind = "ok" /\ reply.files # None
  THEN Cardinality({i \in 1..Len(Get(reply.files)) :
                      NameMatches(Get(reply.files)[i], term)})
  ELSE 0

InitSearch ==
  /\ store = << >>
  /\ now = 1
  /\ issued = 0
  /\ started = 0
  /\ req = [r \in Requests |-> Idle]
  /\ \E query \in Queries, maxResults \in 1..MaxResults :
       srch = [NoSearch EXCEPT !.query = query, !.maxResults = maxResults]

\* smartDriveSearch is called and issues the files.list call of strategy 1.
SearchBegin ==
  /\ srch.pc = "idle"
  /\ srch' = [srch EXCEPT
       !.pc = "call",
       !.calls = <<Call(1, srch.query, SearchTermMatch(srch.query),
                        srch.maxResults)>>]
  /\ UNCHANGED <<store, now, issued, started, req>>

\* The call in flight is answered: smartDriveSearch returns what the strategy
\* found, or issues the call of the next strategy, or returns []; when it
\* returns, the drive_search case builds the handler's result.
SearchReply ==
  /\ srch.pc = "call"
  /\ LET m == SearchTermMatch(srch.query)
         term == IF m = None THEN << >> ELSE Get(m)
         n == Len(srch.calls)
         k == srch.calls[n].strategy
     IN \E reply \in SearchReplies(term) :
          LET found == Found(k, term, srch.maxResults, reply)
              k2 == NextStrategy(k, m)
              answered == [srch.calls EXCEPT
                             ![n].answer = AnswerOf(reply),
                             ![n].passing = PassingOf(reply, term)]
          IN srch' =
               IF reply.kind = "fail" /\ StrategyCatch(k, reply) = "throw"
               THEN [srch EXCEPT !.pc = "done", !.calls = answered,
                                 !.reply = reply, !.result = << >>,
                                 !.handler = DriveSearchThrew]
               ELSE IF found # << >>
               THEN [srch EXCEPT !.pc = "done", !.calls = answered,
                                 !.reply = reply, !.result = found,
                                 !.handler = DriveSearch(found)]
               ELSE IF k2 = 0
               THEN [srch EXCEPT !.pc = "done", !.calls = answered,
                                 !.reply = reply, !.result = << >>,
                                 !.handler = DriveSearch(<< >>)]
               ELSE [srch EXCEPT
                       !.calls = Append(answered,
                                        Call(k2, srch.query, m, srch.maxResults)),
                       !.reply = reply]
  /\ UNCHANGED <<store, now, issued, started, req>>

NextSearch ==
  \/ SearchBegin
  \/ SearchReply

SpecSearch == InitSearch /\ [][NextSearch]_vars

\* ------------------------------------------------ successive invocations

\* Invocations run one after the other while time passes; nothing else
\* writes the store (no authorization callback, no logout).
NextSeq ==
  \/ Tick
  \/ \E r \in Sequential, p \in Principals : StartRequest(r, p)
  \/ \E r \in Sequential : ReadReply(r)
  \/ \E r \in Sequential : BackoffDone(r)
  \/ \E r \in Sequential : RefreshOk(r)
  \/ \E r \in Sequential : RefreshFail(r)
  \/ \E r \in Sequential : SaveApply(r)
  \/ \E r \in Sequential : SaveFail(r)
  \/ \E r \in Sequential : SaveReturn(r)
  \/ \E r \in Sequential : OpOk(r)
  \/ \E r \in Sequential : OpFail(r)

SpecSeq == InitConc /\ [][NextSeq]_vars

\* ------------------------------------------- invocations and searches, fair

\* Either handler instances run (from two expired grants), or one search
\* runs. A handler step that is enabled is eventually taken: the store and
\* the authorization service answer, timers fire, the remote operation
\* completes.
InitBoth == InitConc \/ (InitSearch /\ srch.maxResults = 1)

Invocations == srch = NoSearch /\ NextConc

NextBoth ==
  \/ Invocations
  \/ srch # NoSearch /\ NextSearch

SpecBoth == InitBoth /\ [][NextBoth]_vars /\ WF_vars(Invocations)

\* ------------------------------------------- the original credential path

\* new Error('User not authenticated. Please visit /oauth/start?userId=...')
OriginalNotAuthenticated ==
  [cls |-> "Error", code |-> 0, id |-> "OriginalNotAuthenticated", msg |-> {},
   mtype |-> "string"]

\* What the store's client rejects with when the read throws.
StoreThrew ==
  [cls |-> "Error", code |-> 0, id |-> "StoreThrew", msg |-> {},
   mtype |-> "string"]

\* The original getTokens: one read; any error of the store gives null.
OriginalGetTokens(reply, row) ==
  CASE reply \in {"PGRST116", "error"} -> Return(None)
    [] reply = "throw" -> Throw(StoreThrew)
    [] reply = "row" -> Return(Some(row))
    [] reply = "noTokens" -> Return(None)

\* The original getAuthenticatedClient: no expiry test, no refresh.
OriginalAuthenticatedClient(reply, row) ==
  LET tokens == OriginalGetTokens(reply, row)
  IN IF tokens.kind = "throw" THEN tokens
     ELSE IF tokens.value = None THEN Throw(OriginalNotAuthenticated)
     ELSE Return(tokens.value)

\* ------------------------------------------------------------------ claims

\* The claims' own reading of "the stored credential has an expiry and
\* expiry < now".
ExpiredAt(t, time) == t.expiry_date # Undefined /\ t.expiry_date < time

\* The step is the answer to a store read of instance r.
ReadAnswered(r) == req'[r].reads = req[r].reads + 1

\* C1: when the store read of an invocation answers "no matching record",
\* getAuthenticatedClient fails with AuthenticationError (User not
\* authenticated), the caller gets kind Authentication, never Temporary, and
\* no remote operation is invoked.
C1_AbsentIsAuthentication ==
  \A r \in Requests :
    req[r].last = "PGRST116" =>
      /\ req[r].pc = "done"
      /\ req[r].thrown = Some(UserNotAuthenticated)
      /\ req[r].result = "Authentication"
      /\ req[r].result # "Temporary"
      /\ req[r].ops = 0

C1_Witness ==
  \E r \in Requests :
    req[r].last = "PGRST116" /\ req[r].reads = 2 /\ req[r].pc = "done"

C3_ExhaustedReadIsTemporary ==
  \A r \in Requests :
    req[r].failures = Retries =>
      /\ req[r].pc = "done"
      /\ req[r].thrown # None
      /\ Get(req[r].thrown).cls = "TemporaryError"
      /\ req[r].result = "Temporary"
      /\ req[r].ops = 0

C3_Witness ==
  \E r \in Requests :
    req[r].failures = Retries /\ req[r].result = "Temporary"

\* C4: the step in which a read is answered "no matching record", on
\* whichever attempt, ends the read: it adds no wait, the reader returns null
\* (no TemporaryError), and from then on the invocation issues no read and
\* sleeps no more.
C4_AbsentEndsTheRead ==
  [][\A r \in Requests :
       /\ (ReadAnswered(r) /\ req'[r].last = "PGRST116") =>
            /\ req'[r].waits = req[r].waits
            /\ req'[r].pc = "done"
            /\ req'[r].thrown = Some(UserNotAuthenticated)
       /\ (req[r].last = "PGRST116" /\ req'[r].last # "none") =>
            /\ req'[r].reads = req[r].reads
            /\ req'[r].waits = req[r].waits
            /\ req'[r].attempt = req[r].attempt
            /\ req'[r].pc = "done"]_vars

C4_Witness ==
  \E r \in Requests :
    req[r].last = "PGRST116" /\ req[r].reads = 3 /\ Len(req[r].waits) = 2

\* C5 (as claimed): no store failure is surfaced as kind Authentication,
\* neither an exhausted read nor a failed upsert of refreshed credentials.
C5_StoreFailureNeverAuthentication ==
  \A r \in Requests :
    (req[r].pc = "done" /\
       (req[r].failures = Retries \/ req[r].caught = Some(UpsertError))) =>
      req[r].result # "Authentication"

\* C6: a read that returns the row is followed by a refresh call exactly when
\* the row has an expiry and expiry < now; no other step calls the refresh
\* service, so an invocation calls it at most once; the upsert stores the
\* refreshed credentials under the invocation's user, and the credentials the
\* call returns (set on the client) are the ones it has persisted.
C6_RefreshIffExpired ==
  [][\A r \in Requests :
       /\ (ReadAnswered(r) /\ req'[r].last = "row") =>
            ((req'[r].refreshes = 1 /\ req'[r].pc = "refresh")
               <=> ExpiredAt(store[req[r].user], now))
       /\ req'[r].refreshes # req[r].refreshes =>
            \/ req'[r].refreshes = 0
            \/ /\ req[r].refreshes = 0 /\ req'[r].refreshes = 1
               /\ ReadAnswered(r) /\ req'[r].last = "row"
       /\ req'[r].written # req[r].written /\ req'[r].written # << >> =>
            /\ req'[r].written = <<Get(req[r].creds)>>
            /\ req[r].user \in DOMAIN store'
            /\ store'[req[r].user] = Get(req[r].creds)
       /\ (req[r].pc = "saved" /\ req'[r].pc # "saved") =>
            /\ req'[r].client = req[r].creds
            /\ req'[r].written = <<Get(req'[r].client)>>]_vars

C6_Witness ==
  \E r \in Requests :
    /\ req[r].pc = "op" /\ req[r].refreshes = 1
    /\ req[r].written = <<Get(req[r].client)>>
    /\ req[r].user \in DOMAIN store
    /\ store[req[r].user] = Get(req[r].client)

\* C7: a read that returns a row with no expiry, or with an expiry in the
\* future, is followed by the remote operation with exactly the stored
\* credentials: no refresh call, no store write in that step, and none later
\* in the invocation.
C7_ValidCredentialAsIs ==
  [][\A r \in Requests :
       /\ (/\ ReadAnswered(r) /\ req'[r].last = "row"
           /\ \/ store[req[r].user].expiry_date = Undefined
              \/ store[req[r].user].expiry_date > now) =>
            /\ req'[r].pc = "op"
            /\ req'[r].opCred = Some(store[req[r].user])
            /\ req'[r].client = Some(store[req[r].user])
            /\ req'[r].refreshes = 0
            /\ req'[r].written = << >>
            /\ store' = store
       /\ (req[r].pc \in {"op", "done"} /\ req[r].refreshes = 0
           /\ req'[r].pc \in {"op", "done"}) =>
            /\ req'[r].refreshes = 0
            /\ req'[r].written = << >>
            /\ req'[r].opCred = req[r].opCred]_vars

C7_Witness ==
  \E r \in Requests :
    /\ req[r].pc = "op" /\ req[r].refreshes = 0
    /\ Get(req[r].opCred).expiry_date = Undefined

\* C8: when the refresh exchange fails, also for credentials without a
\* refresh token, the invocation ends with AuthenticationError (Token expired
\* and refresh failed), kind Authentication, after one refresh call, without
\* a store write and without invoking the remote operation.
C8_RefreshFailureIsAuthentication ==
  \A r \in Requests :
    (req[r].caught # None /\ Get(req[r].caught) \in
        {NoRefreshToken, InvalidGrant, RefreshTimeout}) =>
      /\ req[r].pc = "done"
      /\ req[r].thrown = Some(RefreshFailed)
      /\ req[r].result = "Authentication"
      /\ req[r].refreshes = 1
      /\ req[r].written = << >>
      /\ req[r].ops = 0

C8_Witness ==
  \E r \in Requests :
    /\ req[r].caught = Some(NoRefreshToken)
    /\ Get(req[r].client).refresh_token = Undefined
    /\ req[r].result = "Authentication"

\* C9: a remote operation that runs after a refresh runs with credentials
\* whose upsert the store applied earlier in the same invocation; an
\* invocation whose upsert failed ends in an error, with no credentials
\* handed out and no remote operation invoked.
C9_PersistedBeforeReturned ==
  \A r \in Requests :
    /\ (req[r].refreshes = 1 /\ req[r].ops > 0) =>
         /\ req[r].opCred # None
         /\ req[r].written = <<Get(req[r].opCred)>>
    /\ req[r].caught = Some(UpsertError) =>
         /\ req[r].pc = "done"
         /\ req[r].ops = 0
         /\ req[r].opCred = None
         /\ req[r].thrown # None
         /\ req[r].result \notin {"none", "ok"}

C9_Witness ==
  \E r \in Requests :
    /\ req[r].pc = "done" /\ req[r].result = "ok"
    /\ req[r].refreshes = 1 /\ Len(req[r].written) = 1

C9_WitnessUpsertFailed ==
  \E r \in Requests : req[r].caught = Some(UpsertError)

\* A call whose result set was non-empty: files were listed and, for
\* strategy 4, at least one of them has a name containing the term.
Hit(c) == c.answer = "files" /\ (c.strategy = 4 => c.passing > 0)

\* C10: the calls of a search are for strictly increasing strategies, and a
\* call whose result set is non-empty is the last call of the search: the
\* search is over, no call for a later strategy is issued, and the list
\* returned is that strategy's (the files of the reply; for strategy 4 a
\* non-empty selection of them).
C10_FirstHitReturns ==
  /\ \A i, j \in 1..Len(srch.calls) :
       i < j => srch.calls[i].strategy < srch.calls[j].strategy
  /\ \A i \in 1..Len(srch.calls) :
       Hit(srch.calls[i]) =>
         /\ i = Len(srch.calls)
         /\ srch.pc = "done"
         /\ srch.result # << >>
         /\ srch.calls[i].strategy # 4 => srch.result = Get(srch.reply.files)
         /\ \A n \in 1..Len(srch.result) :
              \E f \in 1..Len(Get(srch.reply.files)) :
                srch.result[n] = Get(srch.reply.files)[f]

\* The search for 'Sintes' finds nothing as given and something in lower case.
C10_Witness ==
  /\ srch.pc = "done"
  /\ srch.query = ContainsQuery(<<"S", "i", "n", "t", "e", "s">>)
  /\ Len(srch.calls) = 2
  /\ srch.calls[1].answer = "empty"
  /\ srch.calls[2].strategy = 2
  /\ srch.calls[2].q = ContainsQuery(<<"s", "i", "n", "t", "e", "s">>)
  /\ Hit(srch.calls[2])
  /\ srch.result # << >>

\* The strategies that apply to a query, in order: the query as given; for a
\* name search also the lowercase, uppercase, document and spreadsheet
\* strategies; the partial-term strategy when the term has four characters
\* or more.
Applicable(query) ==
  LET m == SearchTermMatch(query)
  IN IF m = None THEN <<1>>
     ELSE IF Len(Get(m)) >= 4 THEN <<1, 2, 3, 4, 5, 6>>
     ELSE <<1, 2, 3, 5, 6>>

AllEmpty(calls) == \A i \in 1..Len(calls) : calls[i].answer = "empty"

\* C11: when the backend answers every strategy with an empty result, the
\* search returns the empty list and has made exactly one remote call per
\* applicable strategy, in order, none twice and none skipped.
C11_AllEmptyOneCallEach ==
  (srch.pc = "done" /\ AllEmpty(srch.calls)) =>
    /\ srch.result = << >>
    /\ Len(srch.calls) = Len(Applicable(srch.query))
    /\ \A i \in 1..Len(srch.calls) :
         srch.calls[i].strategy = Applicable(srch.query)[i]

C11_Witness ==
  /\ srch.pc = "done"
  /\ AllEmpty(srch.calls)
  /\ Len(srch.calls) = 6
  /\ srch.result = << >>

\* The six kinds of result.
Kinds ==
  {"Authentication", "NotFound", "PermissionDenied", "Temporary",
   "RateLimited", "Unknown"}

\* The remote operation of request r rejected and the handler is finished.
OpRejected(r) == req[r].pc = "done" /\ req[r].raw # None

\* C12: whatever value the remote operation rejects with, the handler
\* returns a result of one of the six kinds; classification never throws.
C12_ClassificationTotal ==
  \A r \in Requests : OpRejected(r) => req[r].result \in Kinds

\* The remote operation of request r rejected with an Error object that has
\* a string message.
RawError(r) ==
  /\ OpRejected(r)
  /\ Get(req[r].raw).cls = "Error"
  /\ Get(req[r].raw).mtype = "string"

\* C13: a raw error with remote status code 404 raised by any remote
\* operation yields a result of kind NotFound.
C13_Status404IsNotFound ==
  \A r \in Requests :
    (RawError(r) /\ Get(req[r].raw).code = 404) => req[r].result = "NotFound"

\* The claims' reading of the rules of the precedence list.
AuthMessage(e) == e.msg \cap {"invalid_grant", "Invalid Credentials"} # {}
NotFoundRule(e) == e.code = 404 \/ "not found" \in e.msg
PermissionRule(e) == e.code = 403 \/ e.msg \cap {"permission", "forbidden"} # {}
RateLimitRule(e) == e.code = 429 \/ "rate limit" \in e.msg
TransientRule(e) ==
  e.msg \cap {"ECONNREFUSED", "timeout", "ETIMEDOUT", "temporarily unavailable"}
    # {}

\* C14: the rate-limit rule precedes the transient rule: a raw error that
\* matches both, and no earlier rule, is classified RateLimited, not
\* Temporary.
C14_RateLimitBeforeTransient ==
  \A r \in Requests :
    LET e == Get(req[r].raw)
    IN (/\ RawError(r)
        /\ ~AuthMessage(e) /\ ~NotFoundRule(e) /\ ~PermissionRule(e)
        /\ RateLimitRule(e) /\ TransientRule(e))
       => req[r].result = "RateLimited"

\* The kind of a domain-level marker.
MarkerKind(cls) ==
  CASE cls = "AuthenticationError" -> "Authentication"
    [] cls = "NotFoundError" -> "NotFound"
    [] cls = "PermissionError" -> "PermissionDenied"
    [] cls = "TemporaryError" -> "Temporary"

Markers ==
  {"AuthenticationError", "NotFoundError", "PermissionError", "TemporaryError"}

\* C15: an error that already is a domain-level marker is classified with
\* its own kind whatever its message text or status code.
C15_MarkerKeepsItsKind ==
  \A r \in Requests :
    (/\ req[r].pc = "done"
     /\ req[r].thrown # None
     /\ Get(req[r].thrown).cls \in Markers)
    => req[r].result = MarkerKind(Get(req[r].thrown).cls)

\* C16: the remote operation is invoked at most once in an invocation; once
\* it is in flight the only step of the invocation is its result: on
\* failure the classified error, with no further invocation.
C16_OperationNeverRetried ==
  [][\A r \in Requests :
       /\ req'[r].ops <= 1
       /\ (req[r].pc = "op" /\ req'[r] # req[r]) =>
            /\ req'[r].pc = "done"
            /\ req'[r].ops = req[r].ops
            /\ req'[r].reads = req[r].reads]_vars

C16_Witness ==
  /\ req["r1"].pc = "done"
  /\ req["r1"].ops = 1
  /\ req["r1"].thrown # None
  /\ Get(req["r1"].thrown).cls = "Error"
  /\ req["r1"].result = "RateLimited"

\* The errors of getAuthenticatedClient: no credential, refresh failed,
\* store read exhausted.
LifecycleErrors == {UserNotAuthenticated, RefreshFailed, UnableToRetrieve}

\* C17: when the credential cannot be obtained the remote operation is not
\* invoked and the result has the kind of the error getAuthenticatedClient
\* threw; an invocation that ends without invoking the operation ended with
\* such an error.
C17_NoCredentialNoOperation ==
  \A r \in Requests :
    req[r].pc = "done" =>
      /\ (req[r].thrown # None /\ Get(req[r].thrown) \in LifecycleErrors) =>
           /\ req[r].ops = 0
           /\ req[r].result = MarkerKind(Get(req[r].thrown).cls)
      /\ req[r].ops = 0 =>
           (req[r].thrown # None /\ Get(req[r].thrown) \in LifecycleErrors)

C17_Witness ==
  /\ req["r1"].pc = "done"
  /\ req["r1"].ops = 0
  /\ req["r1"].thrown = Some(UnableToRetrieve)
  /\ req["r1"].result = "Temporary"

\* Both handler instances ran for user p, refreshed and had their upsert
\* applied.
BothPersisted(p) ==
  \A r \in Requests : req[r].user = p /\ req[r].written # << >>

C19_PrincipalsIsolated ==
  [][/\ \A r1, r2 \in Requests :
          r1 # r2 => (req'[r1] = req[r1] \/ req'[r2] = req[r2])
     /\ \A p \in DOMAIN store :
          (p \in DOMAIN store' /\ store'[p] = store[p]) \/
          (\E r \in Requests :
             /\ req[r].user = p
             /\ req[r].pc = "save" /\ req'[r].pc = "saved"
             /\ store' = Upsert(store, p, Get(req[r].creds)))
     /\ \A r \in Requests :
          req'[r].opCred # None =>
            Get(req'[r].opCred).refresh_token =
              OldGrant(req'[r].user).refresh_token]_vars

C19_Witness ==
  /\ req["r1"].user = "u1" /\ req["r2"].user = "u2"
  /\ req["r1"].pc = "done" /\ req["r2"].pc = "done"
  /\ req["r1"].ops = 1 /\ req["r2"].ops = 1
  /\ req["r1"].written # << >> /\ req["r2"].written # << >>
  /\ store["u1"] = req["r1"].written[1]
  /\ store["u2"] = req["r2"].written[1]

CameBackEmpty(c) == c.answer \in {"fail", "empty", "files"} /\ ~Hit(c)

\* C21: the strategies of a search run in plan order and one at a time: the
\* calls issued so far have strictly increasing strategy numbers, every
\* call but the latest has come back empty or failed, and only the latest
\* can be in flight.
C21_StrategiesInOrderOneAtATime ==
  /\ \A i \in 1..(Len(srch.calls) - 1) :
       /\ srch.calls[i].strategy < srch.calls[i + 1].strategy
       /\ CameBackEmpty(srch.calls[i])
  /\ Cardinality({i \in 1..Len(srch.calls) :
                    srch.calls[i].answer = "pending"}) <= 1
  /\ srch.pc = "call" <=>
       (srch.calls # << >> /\ srch.calls[Len(srch.calls)].answer = "pending")

C21_Witness ==
  /\ srch.pc = "call"
  /\ Len(srch.calls) = 6
  /\ srch.calls[3].answer = "fail"
  /\ srch.calls[4].answer = "files"
  /\ srch.calls[5].answer = "empty"

AllFailed(calls) == \A i \in 1..Len(calls) : calls[i].answer = "fail"

\* C22: a strategy whose call fails is skipped and the next applicable
\* strategy still runs; when every call fails the search returns the empty
\* list and the drive_search caller gets the non-error 'no files found'
\* result.
C22_FailedStrategySkipped ==
  /\ \A i \in 1..Len(srch.calls) :
       srch.calls[i].answer = "fail" =>
         /\ i <= Len(Applicable(srch.query))
         /\ srch.calls[i].strategy = Applicable(srch.query)[i]
         /\ IF i < Len(Applicable(srch.query))
            THEN /\ Len(srch.calls) > i
                 /\ srch.calls[i + 1].strategy = Applicable(srch.query)[i + 1]
            ELSE srch.pc = "done" /\ srch.result = << >>
  /\ (srch.pc = "done" /\ AllFailed(srch.calls)) =>
       /\ srch.result = << >>
       /\ srch.handler = [kind |-> "NoFilesFound", isError |-> FALSE]
  /\ srch.pc = "done" => ~srch.handler.isError

C22_Witness ==
  /\ srch.pc = "done"
  /\ Len(srch.calls) = 6
  /\ AllFailed(srch.calls)
  /\ srch.handler.kind = "NoFilesFound"

\* The search ran to its end without a strategy finding anything to return.
RanOut == srch.pc = "done" /\ \A i \in 1..Len(srch.calls) : ~Hit(srch.calls[i])

Strategies(calls) == [i \in 1..Len(calls) |-> calls[i].strategy]

\* The term of a query of the shape <field> contains '<term>', whatever
\* the field: the characters between the first two quotes.
AnyFieldTerm(query) ==
  IF Len(query) >= 3 /\ query[2] \in Quotes
  THEN Some(SubSeq(query, 3, Min({j \in 3..Len(query) : query[j] \in Quotes}) - 1))
  ELSE None

PlanOf(m) ==
  IF m = None THEN <<1>>
  ELSE IF Len(Get(m)) >= 4 THEN <<1, 2, 3, 4, 5, 6>>
  ELSE <<1, 2, 3, 5, 6>>

\* The queries of steps 5 and 6 for a term: the lower-cased term and one
\* subtype predicate each.
SubtypeQueries(calls, term) ==
  \A i \in 1..Len(calls) :
    /\ calls[i].strategy = 5 =>
         calls[i].q = <<NameContains, "'">> \o ToLowerCase(term)
                        \o <<"'", DocsOnly>>
    /\ calls[i].strategy = 6 =>
         calls[i].q = <<NameContains, "'">> \o ToLowerCase(term)
                        \o <<"'", SheetsOnly>>

\* C23 as stated: a query of the shape <field> contains '<term>', for any
\* field, gets steps 1,2,3,5,6 or all six by the length of the term; any
\* other query gets step 1 only.
C23_PlanForAnyField ==
  RanOut =>
    /\ Strategies(srch.calls) = PlanOf(AnyFieldTerm(srch.query))
    /\ AnyFieldTerm(srch.query) # None =>
         SubtypeQueries(srch.calls, Get(AnyFieldTerm(srch.query)))

\* C23, amended: the shape is name contains '<term>' (either quote): a query
\* without it gets step 1 only, one with a term shorter than 4 characters
\* steps 1,2,3,5,6, one with a longer term all six; steps 5 and 6 search
\* the lower-cased term with one subtype predicate each.
C23_PlanForNameSearch ==
  /\ RanOut => Strategies(srch.calls) = Applicable(srch.query)
  /\ \A i \in 1..Len(srch.calls) :
       /\ i <= Len(Applicable(srch.query))
       /\ srch.calls[i].strategy = Applicable(srch.query)[i]
  /\ SearchTermMatch(srch.query) # None =>
       SubtypeQueries(srch.calls, Get(SearchTermMatch(srch.query)))

C23_Witness ==
  /\ RanOut
  /\ Strategies(srch.calls) = <<1, 2, 3, 5, 6>>
  /\ Len(srch.query) > 5

\* max(4, floor(0.6 * n))
PrefixLength(n) == IF (6 * n) \div 10 > 4 THEN (6 * n) \div 10 ELSE 4

\* C24: strategy 4 is called only for terms of four characters or more; it
\* searches the (lower-cased) prefix of the term of length
\* max(4, floor(0.6 * len)), which is at least 4 and at most the length of
\* the term, and asks for 3 * maxResults results.
C24_PartialPrefixAndCap ==
  LET m == SearchTermMatch(srch.query)
  IN \A i \in 1..Len(srch.calls) :
       srch.calls[i].strategy = 4 =>
         /\ m # None
         /\ Len(Get(m)) >= 4
         /\ PrefixLength(Len(Get(m))) >= 4
         /\ PrefixLength(Len(Get(m))) <= Len(Get(m))
         /\ srch.calls[i].q =
              <<NameContains, "'">>
                \o ToLowerCase(SubSeq(Get(m), 1, PrefixLength(Len(Get(m)))))
                \o <<"'">>
         /\ srch.calls[i].pageSize = 3 * srch.maxResults

\* A strategy-4 call for a term whose prefix is longer than four characters.
C24_Witness ==
  /\ Len(srch.calls) >= 4
  /\ srch.calls[4].strategy = 4
  /\ Len(srch.calls[4].q) > 7
  /\ srch.calls[4].pageSize = 3 * MaxResults

\* The name contains the term, compared in lower case.
ContainsTerm(file, term) ==
  /\ file.name # None
  /\ \E i \in 0..(Len(Get(file.name)) - Len(term)) :
       \A j \in 1..Len(term) :
         LowerOf(Get(file.name)[i + j]) = LowerOf(term[j])

\* s is the list l without some of its items, the others in l's order.
RECURSIVE IsSubsequence(_, _)
IsSubsequence(s, l) ==
  IF s = << >> THEN TRUE
  ELSE IF l = << >> THEN FALSE
  ELSE IF Head(s) = Head(l) THEN IsSubsequence(Tail(s), Tail(l))
  ELSE IsSubsequence(s, Tail(l))

\* The search returned what strategy 4 found.
ReturnedByPartial ==
  /\ srch.pc = "done"
  /\ srch.result # << >>
  /\ srch.calls[Len(srch.calls)].strategy = 4

C25_WitnessNonePasses ==
  /\ Len(srch.calls) >= 5
  /\ srch.calls[4].answer = "files"
  /\ srch.calls[4].passing = 0

\* C26: a read answered without an error and without a credential record is
\* a failed attempt: the invocation does not end on it unless it was the
\* last attempt, and then it ends Temporary, not Authentication.
C26_UnexpectedShapeRetried ==
  \A r \in Requests :
    (req[r].pc = "done" /\ req[r].last = "noTokens") =>
      /\ req[r].reads = Retries
      /\ req[r].result = "Temporary"

\* C27: the store is written by an invocation only after a successful
\* refresh of an expired credential: every other step of an invocation
\* leaves every user's row as it was, and an invocation that ends without a
\* successful refresh (credential absent, reads exhausted, credential still
\* valid, refresh rejected) has written nothing.
C27_OnlyRefreshWrites ==
  [][/\ store' # store =>
          \/ req' = req
          \/ \E r \in Requests :
               /\ req[r].pc = "save" /\ req'[r].pc = "saved"
               /\ req[r].creds # None
               /\ ExpiredAt(Get(req[r].client), now)
     /\ \A r \in Requests :
          req'[r].creds = None => req'[r].written = << >>]_vars

C27_Witness ==
  /\ req["r1"].pc = "done"
  /\ req["r1"].thrown = Some(RefreshFailed)
  /\ req["r1"].creds = None
  /\ req["r1"].written = << >>
  /\ req["r1"].user \in DOMAIN store

\* C28: once a user's record is gone (logout), no record exists for the
\* user until an authorization callback stores one: a record appears only
\* by a step of the callback route, never by a step of an invocation; and
\* an invocation whose read finds no record ends in Authentication without
\* invoking the operation.
C28_DestroyedUntilCallback ==
  [][/\ \A p \in Principals :
          (p \notin DOMAIN store /\ p \in DOMAIN store') => req' = req
     /\ \A r \in Requests :
          (/\ req[r].pc = "read"
           /\ req[r].user \notin DOMAIN store
           /\ req'[r].reads = req[r].reads + 1
           /\ req'[r].last = "PGRST116")
          => /\ req'[r].pc = "done"
             /\ req'[r].result = "Authentication"
             /\ req'[r].ops = 0]_vars

WorkBounded ==
  /\ \A r \in Requests :
       /\ req[r].reads <= 3
       /\ Len(req[r].waits) <= 2
       /\ req[r].refreshes <= 1
       /\ Len(req[r].written) <= 1
       /\ req[r].ops <= 1
  /\ Len(srch.calls) <= 6

\* How far a search is: 0 before it starts, then the number of calls
\* issued, 7 when it has returned.
SearchProgress(x) ==
  IF x.pc = "idle" THEN 0 ELSE IF x.pc = "call" THEN Len(x.calls) ELSE 7

C30_WitnessSearch == srch.pc = "done" /\ Len(srch.calls) = 6

\* C31: when the first read is answered by the row or by "no row" and the
\* stored credential is not expired, the enhanced path ends as the original
\* one does on the same answer: the operation is invoked with exactly the
\* stored tokens when the original returns a client with them, the
\* invocation fails as not authenticated when the original throws that;
\* one read was made and the store is not written.
C31_SameAsOriginal ==
  [][\A r \in Requests :
       (/\ req[r].pc = "read" /\ req[r].attempt = 1
        /\ req'[r].reads = 1
        /\ req'[r].last \in {"row", "PGRST116"}
        /\ req'[r].last = "row" => ~ExpiredAt(store[req[r].user], now))
       => LET row == IF req'[r].last = "row" THEN store[req[r].user]
                     ELSE Tokens(Undefined, Undefined, Undefined)
              original == OriginalAuthenticatedClient(req'[r].last, row)
          IN /\ original.kind = "return" =>
                  /\ req'[r].pc = "op"
                  /\ req'[r].opCred = original.value
                  /\ req'[r].opCred = Some(store[req[r].user])
             /\ original.kind = "throw" =>
                  /\ Get(original.error) = OriginalNotAuthenticated
                  /\ req'[r].pc = "done"
                  /\ req'[r].thrown = Some(UserNotAuthenticated)
                  /\ req'[r].result = "Authentication"
                  /\ req'[r].ops = 0
             /\ original.kind \in {"return", "throw"}
             /\ req'[r].refreshes = 0
             /\ req'[r].written = << >>
             /\ store' = store]_vars

\* A stored, unexpired credential was read once and handed to the operation
\* as it is.
C31_Witness ==
  /\ req["r1"].user = "u1"
  /\ req["r1"].reads = 1
  /\ req["r1"].last = "row"
  /\ req["r1"].pc = "op"
  /\ "u1" \in DOMAIN store
  /\ req["r1"].opCred = Some(store["u1"])
  /\ Truthy(store["u1"].expiry_date)

\* C32: when reads 1..k-1 failed and read k is answered (by the row or by
\* "no row"), getTokens returns on read k: k - 1 reads failed, k - 1 waits
\* were slept, no read follows, and the invocation goes on with the
\* credential or ends as not authenticated; an invocation ends Temporary
\* without invoking the operation only after 3 failed reads.
C32_RecoversMidSequence ==
  \A r \in Requests :
    /\ req[r].last \in {"row", "PGRST116"} =>
         /\ req[r].reads <= Retries
         /\ req[r].failures = req[r].reads - 1
         /\ Len(req[r].waits) = req[r].reads - 1
         /\ req[r].pc \notin {"read", "backoff"}
         /\ req[r].last = "row" => req[r].client # None
         /\ req[r].last = "PGRST116" =>
              /\ req[r].pc = "done"
              /\ req[r].thrown = Some(UserNotAuthenticated)
    /\ (req[r].pc = "done" /\ req[r].ops = 0 /\ req[r].result = "Temporary") =>
         /\ req[r].reads = Retries
         /\ req[r].failures = Retries

\* Two reads failed and the third was answered with the row.
C32_Witness ==
  /\ req["r1"].reads = 3
  /\ req["r1"].failures = 2
  /\ req["r1"].last = "row"
  /\ Len(req["r1"].waits) = 2
  /\ req["r1"].pc = "op"

\* The row of user p is no longer the grant the run started with: an
\* earlier invocation refreshed it and persisted the result.
RefreshedEarlier(p) == p \in DOMAIN store /\ store[p] # OldGrant(p)

\* C33: with invocations one after the other and no other writer: a
\* successful refresh leaves a persisted credential that is not expired; an
\* invocation that reads a credential refreshed earlier, before its expiry,
\* makes no refresh and no store write and calls the operation with it; a
\* failed refresh leaves the expired grant in the store, and an invocation
\* that reads the expired grant attempts one refresh.
C33_AcrossInvocations ==
  [][\A r \in Sequential :
       LET p == req[r].user
       IN /\ (req[r].pc = "save" /\ req'[r].pc = "saved") =>
               /\ store'[p] = Get(req[r].creds)
               /\ store'[p] # OldGrant(p)
               /\ ~ExpiredAt(store'[p], now)
          /\ (/\ req[r].pc = "read" /\ req'[r].last = "row"
              /\ req'[r].reads = req[r].reads + 1
              /\ RefreshedEarlier(p) /\ ~ExpiredAt(store[p], now)) =>
               /\ req'[r].pc = "op"
               /\ req'[r].opCred = Some(store[p])
               /\ req'[r].refreshes = 0
               /\ req'[r].written = << >>
               /\ store' = store
          /\ (req[r].pc \in {"refresh", "save"} /\ req'[r].pc = "done") =>
               /\ store' = store
               /\ store[p] = OldGrant(p)
               /\ ExpiredAt(store[p], now)
          /\ (/\ req[r].pc = "read" /\ req'[r].last = "row"
              /\ req'[r].reads = req[r].reads + 1
              /\ store[p] = OldGrant(p)) =>
               /\ req'[r].pc = "refresh"
               /\ req'[r].refreshes = 1
          /\ req'[r].refreshes <= 1]_vars

\* The second invocation for u1 uses what the first one refreshed.
C33_Witness ==
  /\ started = 2
  /\ req["r1"].user = "u1"
  /\ RefreshedEarlier("u1")
  /\ req["r1"].pc = "op"
  /\ req["r1"].refreshes = 0
  /\ req["r1"].opCred = Some(store["u1"])
  /\ now = MaxClock

\* The second invocation for u1 refreshes again after a failed refresh.
C33_WitnessAgain ==
  /\ started = 2
  /\ req["r1"].user = "u1"
  /\ store["u1"] = OldGrant("u1")
  /\ req["r1"].pc = "refresh"
  /\ issued = 0

\* C34: in every interleaving of requests, callbacks and logouts, a user
\* without a record (logged out) keeps having none across every step of a
\* request, also the save of a refresh that began before the logout: a
\* record appears only when an authorization callback stores one.
C34_RevocationDurable ==
  [][\A r \in Requests :
       req'[r] # req[r] =>
         \A p \in Principals :
           p \notin DOMAIN store => p \notin DOMAIN store']_vars

\* What reached the catch block of request r is not an AuthenticationError
\* and its message is a string with one of the authentication phrases.
AuthPhraseOnly(r) ==
  /\ req[r].pc = "done"
  /\ req[r].thrown # None
  /\ Get(req[r].thrown).cls # "AuthenticationError"
  /\ Get(req[r].thrown).mtype = "string"
  /\ AuthMessage(Get(req[r].thrown))

C35_WitnessStatus ==
  /\ AuthPhraseOnly("r1")
  /\ Get(req["r1"].thrown).cls = "Error"
  /\ Get(req["r1"].thrown).code = 429
  /\ "rate limit" \in Get(req["r1"].thrown).msg
  /\ req["r1"].result = "Authentication"

\* The raw query has a predicate after the name predicate.
FurtherPredicate == " and trashed=false"
HasFurtherPredicate(query) ==
  query # << >> /\ query[Len(query)] = FurtherPredicate

\* q is name contains '<x>' and nothing else, where x is the term or a
\* prefix of it in some case.
NamePredicateOnly(q, term) ==
  /\ Len(q) >= 3
  /\ q[1] = NameContains
  /\ q[2] = "'"
  /\ q[Len(q)] = "'"
  /\ LET x == SubSeq(q, 3, Len(q) - 1)
     IN /\ Len(x) <= Len(term)
        /\ ToLowerCase(x) = ToLowerCase(SubSeq(term, 1, Len(x)))

\* C36: strategies 2 to 6 are built from the extracted term alone: also when
\* the raw query has further predicates after name contains '<term>', the
\* query of a call of strategy 2, 3 or 4 is the name predicate on the term
\* (or its prefix) and nothing else, and the query of strategy 5 or 6 is
\* that followed by the fixed subtype predicate; no further predicate of
\* the raw query is carried over.
C36_FallbacksUseTermOnly ==
  SearchTermMatch(srch.query) # None =>
    \A i \in 1..Len(srch.calls) :
      LET c == srch.calls[i]
          term == Get(SearchTermMatch(srch.query))
      IN /\ c.strategy \in {2, 3, 4} => NamePredicateOnly(c.q, term)
         /\ c.strategy \in {5, 6} =>
              /\ c.q # << >>
              /\ NamePredicateOnly(SubSeq(c.q, 1, Len(c.q) - 1), term)
              /\ c.q[Len(c.q)] = IF c.strategy = 5 THEN DocsOnly
                                  ELSE SheetsOnly
         /\ c.strategy >= 2 =>
              \A j \in 1..Len(c.q) : c.q[j] # FurtherPredicate

\* A name search with a further predicate went through all six strategies.
C36_Witness ==
  /\ HasFurtherPredicate(srch.query)
  /\ SearchTermMatch(srch.query) # None
  /\ Strategies(srch.calls) = <<1, 2, 3, 4, 5, 6>>
  /\ srch.calls[1].q = srch.query

====
